---- MODULE Spec2Model ----
(***************************************************************************)
(* Model of the transcript ingestion workflow of chat-ytchannel            *)
(* (src/src/mastra/workflows/transcript-workflow.ts) over the tables of    *)
(* the drizzle schema (src/unnamed/part_005) and the PgVector index.       *)
(*                                                                         *)
(* Texts are 0-indexed JavaScript strings, modelled as sequences of        *)
(* one-character strings; JavaScript index k is sequence index k + 1.      *)
(* A transcript is kept in the state by name (a token); TextOf gives its   *)
(* characters and ChunksOf the result of chunkText on them, so that the    *)
(* stores hold the chunk <<t, i>> for chunkText(TextOf[t], 500, 100)[i].   *)
(***************************************************************************)
EXTENDS Integers, Sequences, FiniteSets, TLC

VARIABLES videos, chunks, vectorStore, indexCreated, now, run, nstarted,
          nfaults, lastDone, universe, chunker, search, files, version

vars == <<videos, chunks, vectorStore, indexCreated, now, run, nstarted,
          nfaults, lastDone, universe, chunker, search, files, version>>

(* ---------------------------------------------------------------- bounds *)

\* Number of ingest invocations in one behaviour.
MaxRuns == 2

\* Number of faults (collaborator or store errors) in one behaviour.
MaxFaults == 1

\* Iterations of the chunker loop that are followed before giving up.
MaxIter == 12

\* Longest text given to chunkText when it is checked on its own.
MaxLen == 9

\* Largest chunkSize given to chunkText when it is checked on its own.
MaxTarget == 7

(* ------------------------------------------------------------- constants *)

\* chunkText(transcript, 500, 100)
ChunkSize == 500

Overlap == 100

Min(a, b) == IF a < b THEN a ELSE b

Max(a, b) == IF a > b THEN a ELSE b

(* --------------------------------------------------------------- chunker *)

\* Variant: String.prototype.substr(s, e), whose second argument is a length.
JsSubstr(text, s, e) ==
  LET n == Len(text)
      from == IF s < 0 THEN Max(n + s, 0) ELSE Min(s, n)
      to == Min(from + Max(e, 0), n)
  IN IF from >= to THEN <<>> ELSE SubSeq(text, from + 1, to)

\* String.prototype.slice(s, e): negative indices count from the end.
JsSlice(text, s, e) ==
  LET n == Len(text)
      from == IF s < 0 THEN Max(n + s, 0) ELSE Min(s, n)
      to == IF e < 0 THEN Max(n + e, 0) ELSE Min(e, n)
  IN IF from >= to THEN <<>> ELSE SubSeq(text, from + 1, to)

\* Variant: the index of the last character when there is no space.
LastIndexOfSpaceOrEnd(chunk) ==
  LET at == {k \in 1..Len(chunk) : chunk[k] = " "}
  IN IF at = {} THEN Len(chunk) - 1
     ELSE (CHOOSE k \in at : \A j \in at : j <= k) - 1

\* String.prototype.lastIndexOf(" "): 0-based, -1 when there is none.
LastIndexOfSpace(chunk) ==
  LET at == {k \in 1..Len(chunk) : chunk[k] = " "}
  IN IF at = {} THEN -1 ELSE (CHOOSE k \in at : \A j \in at : j <= k) - 1

RECURSIVE ChunkLoopNoBackoff(_, _, _, _, _, _, _)
\* Variant: the loop without its "don't cut words in half" branch.
ChunkLoopNoBackoff(text, chunkSize, overlap, start, acc, starts, fuel) ==
  IF ~(start < Len(text))
  THEN [chunks |-> acc, starts |-> starts, terminated |-> TRUE]
  ELSE IF fuel = 0
  THEN [chunks |-> acc, starts |-> starts, terminated |-> FALSE]
  ELSE
    LET end == Min(start + chunkSize, Len(text))
        chunk == JsSlice(text, start, end)
    IN IF end < Len(text)
       THEN ChunkLoopNoBackoff(text, chunkSize, overlap,
                               start + chunkSize - overlap,
                               Append(acc, chunk),
                               Append(starts, start), fuel - 1)
       ELSE [chunks |-> Append(acc, chunk), starts |-> Append(starts, start),
             terminated |-> TRUE]

RECURSIVE ChunkLoop(_, _, _, _, _, _, _)
\* The while loop of chunkText; starts is the value of start at the head of
\* each iteration, fuel the iterations still followed.
ChunkLoop(text, chunkSize, overlap, start, acc, starts, fuel) ==
  IF ~(start < Len(text))
  THEN [chunks |-> acc, starts |-> starts, terminated |-> TRUE]
  ELSE IF fuel = 0
  THEN [chunks |-> acc, starts |-> starts, terminated |-> FALSE]
  ELSE
    LET end == Min(start + chunkSize, Len(text))
        chunk == JsSlice(text, start, end)
        lastSpaceIndex == LastIndexOfSpace(chunk)
    IN IF end < Len(text)
       THEN IF lastSpaceIndex > 0
            THEN ChunkLoop(text, chunkSize, overlap,
                           start + lastSpaceIndex + 1 - overlap,
                           Append(acc, JsSlice(chunk, 0, lastSpaceIndex)),
                           Append(starts, start), fuel - 1)
            ELSE ChunkLoop(text, chunkSize, overlap,
                           start + chunkSize - overlap,
                           Append(acc, chunk),
                           Append(starts, start), fuel - 1)
       ELSE [chunks |-> Append(acc, chunk), starts |-> Append(starts, start),
             terminated |-> TRUE]

\* Variant: a do-while loop, whose body runs once on the empty text and
\* which goes round again after a window that reaches the end of the text.
chunkTextDoWhile(text, chunkSize, overlap) ==
  IF Len(text) <= chunkSize
  THEN <<text, <<>>>>
  ELSE ChunkLoop(text, chunkSize, overlap, 0, <<>>, <<>>, MaxIter).chunks

chunkText(text, chunkSize, overlap) ==
  ChunkLoop(text, chunkSize, overlap, 0, <<>>, <<>>, MaxIter).chunks

(* ------------------------------------------------------------ transcripts *)

\* The transcripts the transcription collaborator may return, by name.
Transcripts == {"TA", "TB"}

\* TA: 1000 characters, a space after every 9 letters; TB: 600 characters,
\* a space after every 7 letters.
TextOf ==
  [t \in Transcripts |->
     IF t = "TA"
     THEN [k \in 1..1000 |-> IF k % 10 = 0 THEN " " ELSE "a"]
     ELSE [k \in 1..600 |-> IF k % 8 = 0 THEN " " ELSE "b"]]

ChunksOf == [t \in Transcripts |-> chunkText(TextOf[t], ChunkSize, Overlap)]

NumChunks == [t \in Transcripts |-> Len(ChunksOf[t])]

(* ------------------------------------------------------------------ data *)

\* The two versions of the workflow: workflows/transcript-workflow.ts and
\* part_001, which adds the processing parameters to the metadata of the
\* video and rethrows what createIndex throws unless it says "already
\* exists". The version is that of the deployment and does not change.
Versions == {"workflow", "part001"}

\* Concurrent callers of ingest; each runs one workflow at a time.
Procs == {"p1", "p2"}

Ids == {"v1", "v2"}

\* transcriptWorkflow: .then(checkVideoStep) ... .then(chunkAndEmbedStep)
transcriptWorkflow ==
  <<"check-video", "download-video", "get-transcript", "extract-data",
    "chunk-and-embed">>

\* Variant: the chain lacks .then(downloadVideoStep).
StepAfterSkipping(s) ==
  IF s = "check-video" THEN "get-transcript"
  ELSE LET k == CHOOSE j \in 1..Len(transcriptWorkflow) : transcriptWorkflow[j] = s
       IN IF k = Len(transcriptWorkflow) THEN "done" ELSE transcriptWorkflow[k + 1]

\* The step the workflow engine runs once step s has returned.
StepAfter(s) ==
  LET k == CHOOSE j \in 1..Len(transcriptWorkflow) : transcriptWorkflow[j] = s
  IN IF k = Len(transcriptWorkflow) THEN "done" ELSE transcriptWorkflow[k + 1]

\* JavaScript null for a list-valued field.
Null == <<"#null">>

\* JavaScript undefined for a list-valued field.
Undefined == <<"#undefined">>

\* Objects the insight-extraction collaborator may return (videoDataSchema).
ExtractedSet ==
  { [summary |-> "sum", keyTopics |-> <<"rag">>, speakers |-> <<"Shane">>,
     actionItems |-> Null, tags |-> <<"ai">>],
    [summary |-> "", keyTopics |-> <<>>, speakers |-> Null,
     actionItems |-> Null, tags |-> <<>>] }

NoData ==
  [summary |-> "#none", keyTopics |-> Undefined, speakers |-> Undefined,
   actionItems |-> Undefined, tags |-> Undefined]

NoMetadata ==
  [summary |-> "#none", keyTopics |-> Undefined, speakers |-> Undefined,
   actionItems |-> Undefined, tags |-> Undefined, chunkCount |-> -1]

\* No row of the videos table.
NoRecord ==
  [id |-> "none", fullTranscript |-> "none", metadata |-> NoMetadata,
   createdAt |-> -1, updatedAt |-> -1]

\* `${videoId}_chunk_${index}`
ChunkId(videoId, index) == <<videoId, index>>

\* The vector the embedding collaborator returns for a text.
EmbeddingOf(content) == <<"vec", content>>

VideoRows(id) == {v \in videos : v.id = id}

ChunkRows(id) == {c \in chunks : c.videoId = id}

VectorRows(id) == {x \in vectorStore : x.metadata.videoId = id}

\* Outcome of the last ended run of an id, with the chunksCreated of a
\* successful one.
NoneYet == [status |-> "none", chunksCreated |-> 0]

Failed == [status |-> "failed", chunksCreated |-> 0]

Succeeded(n) == [status |-> "done", chunksCreated |-> n]

\* The state of a caller that has not invoked ingest.
IdleRun ==
  [pc |-> "idle", videoId |-> "none", exists |-> FALSE, lookupErr |-> FALSE,
   videoRecord |-> NoRecord, videoFileName |-> "undefined",
   audio |-> "none", awaiting |-> "none", indexConflict |-> FALSE,
   transcript |-> "none",
   transcriptFileName |-> "none",
   videoFileDeleted |-> FALSE, extractedData |-> NoData, flag |-> "absent",
   rec |-> NoRecord, i |-> 0, chunksCreated |-> -1,
   embeddingsGenerated |-> -1, chunkRecords |-> {}, outRecord |-> NoRecord,
   calls |-> {}, writes |-> {}, trace |-> <<>>, failedAt |-> "none",
   faults |-> 0, serial |-> 0, alone |-> TRUE, prev |-> NoneYet,
   itemAtStart |-> NoRecord, chunksAtStart |-> {}, vectorsAtStart |-> {}]

Running(r) == r.pc \notin {"idle", "done", "failed"}

Ended(r) == r.pc \in {"done", "failed"}

\* No call of chunkText is being followed.
ChunkerIdle ==
  [pc |-> "idle", text |-> <<>>, chunkSize |-> 0, overlap |-> 0,
   chunks |-> <<>>, starts |-> <<>>, terminated |-> TRUE]

\* No call of the search tool is being followed.
SearchIdle == [pc |-> "idle"]

(* ------------------------------------------------------------------ init *)

Init ==
  /\ videos = {}
  /\ chunks = {}
  /\ vectorStore = {}
  /\ indexCreated = FALSE
  /\ now = 0
  /\ run = [p \in Procs |-> IdleRun]
  /\ nstarted = 0
  /\ nfaults = 0
  /\ lastDone = [id \in Ids |-> NoneYet]
  /\ universe = {"v1"}
  /\ chunker = ChunkerIdle
  /\ search = SearchIdle
  /\ files = {}
  /\ version \in Versions

(* --------------------------------------------------------------- helpers *)

\* A step of run p throws: the workflow run fails and no later step runs.
Raise(p, r) ==
  /\ run' = [run EXCEPT ![p] = [r EXCEPT !.pc = "failed",
                                         !.failedAt = run[p].pc,
                                         !.faults = @ + 1]]
  /\ lastDone' = [lastDone EXCEPT ![r.videoId] = Failed]

\* Variant: the error is caught and logged inside the step, which returns.
ThrowSwallowed(p, r) ==
  /\ nfaults < MaxFaults
  /\ nfaults' = nfaults + 1
  /\ run' = [run EXCEPT ![p] =
       [r EXCEPT !.failedAt = run[p].pc,
                 !.faults = @ + 1,
                 !.pc = IF \E j \in 1..Len(transcriptWorkflow) :
                             transcriptWorkflow[j] = run[p].pc
                        THEN StepAfter(run[p].pc) ELSE "failed"]]
  /\ UNCHANGED lastDone

\* A collaborator or the database fails under run p.
Throw(p, r) ==
  /\ nfaults < MaxFaults
  /\ nfaults' = nfaults + 1
  /\ Raise(p, r)

\* A step of run p returns r.
Return(p, r) ==
  /\ run' = [run EXCEPT ![p] = r]
  /\ UNCHANGED <<nfaults, lastDone>>

\* The last step of run p returns r: the workflow run succeeds.
Finish(p, r) ==
  /\ run' = [run EXCEPT ![p] = [r EXCEPT !.pc = "done"]]
  /\ lastDone' = [lastDone EXCEPT ![r.videoId] = Succeeded(r.chunksCreated)]
  /\ UNCHANGED nfaults

\* Run p enters step s.
Enter(p, s) == [run[p] EXCEPT !.trace = Append(@, s)]

(* ----------------------------------------------------------------- ingest *)

\* A caller invokes the workflow for id.
Start(p, id) ==
  /\ ~Running(run[p])
  /\ nstarted < MaxRuns
  /\ id \in universe
  /\ nstarted' = nstarted + 1
  /\ run' = [q \in Procs |->
       IF q = p
       THEN [IdleRun EXCEPT
               !.pc = transcriptWorkflow[1],
               !.videoId = id,
               !.serial = nstarted + 1,
               !.alone = \A o \in Procs \ {p} : ~Running(run[o]),
               !.itemAtStart = IF VideoRows(id) = {} THEN NoRecord
                               ELSE CHOOSE v \in VideoRows(id) : TRUE,
               !.prev = lastDone[id],
               !.chunksAtStart = ChunkRows(id),
               !.vectorsAtStart = VectorRows(id)]
       ELSE IF Running(run[q]) THEN [run[q] EXCEPT !.alone = FALSE]
       ELSE run[q]]
  /\ UNCHANGED <<videos, chunks, vectorStore, indexCreated, now, nfaults,
                 lastDone, universe, chunker, search, files, version>>

\* checkVideoExists: the select succeeds.
checkVideoExists(videoId) ==
  LET result == VideoRows(videoId)
  IN IF result # {}
     THEN [exists |-> TRUE, videoRecord |-> CHOOSE v \in result : TRUE]
     ELSE [exists |-> FALSE, videoRecord |-> NoRecord]

\* Variant: the catch block answers that the video exists.
checkVideoExistsCatchFound(videoId) == [exists |-> TRUE, videoRecord |-> NoRecord]

\* checkVideoExists: the select throws and the catch block answers.
checkVideoExistsCatch(videoId) == [exists |-> FALSE, videoRecord |-> NoRecord]

checkVideoStep(p) ==
  /\ run[p].pc = "check-video"
  /\ LET r == Enter(p, "check-video")
         out(result, err) ==
           [r EXCEPT !.exists = result.exists,
                     !.videoRecord = result.videoRecord,
                     !.lookupErr = err,
                     !.flag = IF result.exists THEN "true" ELSE "false",
                     !.pc = StepAfter("check-video")]
     IN \/ Return(p, out(checkVideoExists(r.videoId), FALSE))
        \/ /\ nfaults < MaxFaults
           /\ nfaults' = nfaults + 1
           /\ run' = [run EXCEPT ![p] =
                        [out(checkVideoExistsCatch(r.videoId), TRUE)
                           EXCEPT !.faults = @ + 1]]
           /\ UNCHANGED lastDone
  /\ UNCHANGED <<videos, chunks, vectorStore, indexCreated, now, nstarted,
                 universe, chunker, search, files, version>>

\* Variant: the step downloads without looking at inputData.exists.
downloadVideoStepAlways(p) ==
  /\ run[p].pc = "download-video"
  /\ LET r == Enter(p, "download-video")
         c == [r EXCEPT !.calls = @ \cup {"acquire"}]
     IN \/ /\ Return(p, [c EXCEPT !.videoFileName = "audio",
                                  !.audio = "present",
                                  !.flag = IF r.exists THEN "true" ELSE "false",
                                  !.pc = StepAfter("download-video")])
           /\ files' = files \cup {r.videoId}
        \/ /\ Throw(p, c)
           /\ files' \in {files, files \cup {r.videoId}}
  /\ UNCHANGED <<videos, chunks, vectorStore, indexCreated, now, nstarted,
                 universe, chunker, search, version>>

\* The audio file of a video is `${title}_${videoId}.${container}` under
\* ./video/, one path for every run of the id: files holds the ids whose
\* file exists. A download that fails may have created the file.
downloadVideoStep(p) ==
  /\ run[p].pc = "download-video"
  /\ LET r == Enter(p, "download-video")
     IN IF r.exists
        THEN /\ Return(p, [r EXCEPT !.flag = "true",
                                    !.pc = StepAfter("download-video")])
             /\ UNCHANGED files
        ELSE LET c == [r EXCEPT !.calls = @ \cup {"acquire"}]
             IN \/ /\ Return(p, [c EXCEPT !.videoFileName = "audio",
                                          !.audio = "present",
                                          !.flag = "false",
                                          !.pc = StepAfter("download-video")])
                   /\ files' = files \cup {r.videoId}
                \/ /\ Throw(p, c)
                   /\ files' \in {files, files \cup {r.videoId}}
  /\ UNCHANGED <<videos, chunks, vectorStore, indexCreated, now, nstarted,
                 universe, chunker, search, version>>

\* getTranscriptStep up to await transcribeFile(fs.createReadStream(...)):
\* a file that is not there fails the read stream and the call.
getTranscriptStep(p) ==
  /\ run[p].pc = "get-transcript"
  /\ run[p].awaiting = "none"
  /\ LET r == Enter(p, "get-transcript")
     IN IF r.exists /\ r.videoRecord # NoRecord
        THEN Return(p, [r EXCEPT !.transcript = r.videoRecord.fullTranscript,
                                 !.transcriptFileName = "undefined",
                                 !.videoFileDeleted = TRUE,
                                 !.flag = "true",
                                 !.pc = StepAfter("get-transcript")])
        ELSE IF r.videoFileName = "undefined"
        THEN Throw(p, r)
        ELSE LET c == [r EXCEPT !.calls = @ \cup {"transcribe"}]
             IN IF r.videoId \in files
                THEN Return(p, [c EXCEPT !.awaiting = "transcribeFile"])
                ELSE /\ Raise(p, c)
                     /\ UNCHANGED nfaults
  /\ UNCHANGED <<videos, chunks, vectorStore, indexCreated, now, nstarted,
                 universe, chunker, search, files, version>>

\* Variant: the audio file is left in place and reported as deleted.
getTranscriptKeepingFile(p) ==
  /\ run[p].pc = "get-transcript"
  /\ run[p].awaiting = "transcribeFile"
  /\ \E t \in Transcripts :
       Return(p, [run[p] EXCEPT !.awaiting = "none",
                                !.transcript = t,
                                !.transcriptFileName = "transcript",
                                !.videoFileDeleted = TRUE,
                                !.flag = "false",
                                !.pc = StepAfter("get-transcript")])
  /\ UNCHANGED <<videos, chunks, vectorStore, indexCreated, now, nstarted,
                 universe, chunker, search, files, version>>

\* getTranscript from the answer of transcribeFile on: the transcript is
\* saved, fs.unlinkSync(videoFileName) removes the audio file, or throws
\* when another run of the id has removed it, and the step returns.
getTranscript(p) ==
  /\ run[p].pc = "get-transcript"
  /\ run[p].awaiting = "transcribeFile"
  /\ LET c == [run[p] EXCEPT !.awaiting = "none"]
     IN \/ /\ c.videoId \in files
           /\ files' = files \ {c.videoId}
           /\ \E t \in Transcripts :
                Return(p, [c EXCEPT !.transcript = t,
                                    !.transcriptFileName = "transcript",
                                    !.audio = "deleted",
                                    !.videoFileDeleted = TRUE,
                                    !.flag = "false",
                                    !.pc = StepAfter("get-transcript")])
        \/ /\ c.videoId \notin files
           /\ Raise(p, c)
           /\ UNCHANGED <<nfaults, files>>
        \/ /\ Throw(p, c)
           /\ UNCHANGED files
  /\ UNCHANGED <<videos, chunks, vectorStore, indexCreated, now, nstarted,
                 universe, chunker, search, version>>

\* metadata.summary || "No summary available" and its siblings.
ExistingData(metadata) ==
  [summary |-> IF metadata.summary \in {"", "#none"}
               THEN "No summary available" ELSE metadata.summary,
   keyTopics |-> IF metadata.keyTopics \in {Null, Undefined}
                 THEN <<>> ELSE metadata.keyTopics,
   speakers |-> IF metadata.speakers \in {Null, Undefined}
                THEN Null ELSE metadata.speakers,
   actionItems |-> IF metadata.actionItems \in {Null, Undefined}
                   THEN Null ELSE metadata.actionItems,
   tags |-> IF metadata.tags \in {Null, Undefined}
            THEN <<>> ELSE metadata.tags]

extractDataStep(p) ==
  /\ run[p].pc = "extract-data"
  /\ LET r == Enter(p, "extract-data")
     IN IF r.exists /\ r.videoRecord # NoRecord
        THEN Return(p, [r EXCEPT
                          !.extractedData = ExistingData(r.videoRecord.metadata),
                          !.flag = "true",
                          !.pc = StepAfter("extract-data")])
        ELSE LET c == [r EXCEPT !.calls = @ \cup {"extract"}]
             IN \/ \E e \in ExtractedSet :
                     Return(p, [c EXCEPT !.extractedData = e,
                                         !.flag = "false",
                                         !.pc = StepAfter("extract-data")])
                \/ Throw(p, c)
  /\ UNCHANGED <<videos, chunks, vectorStore, indexCreated, now, nstarted,
                 universe, chunker, search, files, version>>

(* ------------------------------------------------------- chunk and embed *)

\* const videoRecord = {...} of chunkAndEmbedTranscript, built at time t.
NewVideoRecord(videoId, transcript, extractedData, t) ==
  [id |-> videoId,
   fullTranscript |-> transcript,
   metadata |-> [summary |-> extractedData.summary,
                 speakers |-> extractedData.speakers,
                 keyTopics |-> extractedData.keyTopics,
                 actionItems |-> extractedData.actionItems,
                 tags |-> extractedData.tags,
                 chunkCount |-> NumChunks[transcript]],
   createdAt |-> t,
   updatedAt |-> t]

\* part_001: the processing metadata of the video record.
ProcessingMetadata ==
  [chunkSize |-> ChunkSize, overlap |-> Overlap,
   embeddingModel |-> "text-embedding-3-small",
   dataExtractionModel |-> "o3-mini"]

\* The video record that version v of chunkAndEmbedTranscript builds.
VideoRecordOf(v, videoId, transcript, extractedData, t) ==
  IF v = "part001"
  THEN [NewVideoRecord(videoId, transcript, extractedData, t)
          EXCEPT !.metadata = @ @@ ProcessingMetadata]
  ELSE NewVideoRecord(videoId, transcript, extractedData, t)

\* chunks.map((chunk, index) => ({...})): the record of chunk index.
NewChunkRecord(videoId, transcript, extractedData, index, t) ==
  [id |-> ChunkId(videoId, index),
   videoId |-> videoId,
   chunkIndex |-> index,
   content |-> <<transcript, index>>,
   embedding |-> EmbeddingOf(<<transcript, index>>),
   totalChunks |-> NumChunks[transcript],
   topics |-> extractedData.keyTopics,
   createdAt |-> t]

\* The chunkRecords of run r.
ChunkRecordsOf(r) ==
  {NewChunkRecord(r.videoId, r.transcript, r.extractedData, k, r.rec.createdAt) :
     k \in 0..(NumChunks[r.transcript] - 1)}

\* Variant: on conflict the whole row is replaced by rec.
InsertVideoOverwrite(tbl, rec, t) == {v \in tbl : v.id # rec.id} \cup {rec}

\* Variant: on conflict the transcript is set and the metadata is kept.
InsertVideoTranscriptOnly(tbl, rec, t) ==
  IF \E v \in tbl : v.id = rec.id
  THEN {IF v.id = rec.id
        THEN [v EXCEPT !.fullTranscript = rec.fullTranscript,
                       !.updatedAt = t]
        ELSE v : v \in tbl}
  ELSE tbl \cup {rec}

\* insert(videos).values(rec).onConflictDoUpdate({target: id, set: {...}})
\* executed at time t, on a table whose primary key is id.
InsertVideoOnConflictDoUpdate(tbl, rec, t) ==
  IF \E v \in tbl : v.id = rec.id
  THEN {IF v.id = rec.id
        THEN [v EXCEPT !.fullTranscript = rec.fullTranscript,
                       !.metadata = rec.metadata,
                       !.updatedAt = t]
        ELSE v : v \in tbl}
  ELSE tbl \cup {rec}

\* Variant: a plain insert into a table without a primary key.
InsertChunkPlain(tbl, chunk) == tbl \cup {chunk}

\* insert(chunks).values(chunk).onConflictDoNothing() on a table whose
\* primary key is id.
InsertChunkOnConflictDoNothing(tbl, chunk) ==
  IF \E c \in tbl : c.id = chunk.id THEN tbl ELSE tbl \cup {chunk}

\* Variant: the upsert replaces the content of the whole index.
VectorUpsertReplacingIndex(store, recs) ==
  {[id |-> c.id,
    vector |-> c.embedding,
    metadata |-> [chunkId |-> c.id, videoId |-> c.videoId,
                  content |-> c.content]] : c \in recs}

\* vectorStore.upsert({vectors, metadata, ids}): one row per id.
VectorUpsert(store, recs) ==
  LET entries == {[id |-> c.id,
                   vector |-> c.embedding,
                   metadata |-> [chunkId |-> c.id, videoId |-> c.videoId,
                                 content |-> c.content]] : c \in recs}
  IN {x \in store : \A e \in entries : e.id # x.id} \cup entries

\* Variant: the video record is upserted before embedMany is awaited.
chunkAndEmbedStepWriteFirst(p) ==
  /\ run[p].pc = "chunk-and-embed"
  /\ ~run[p].exists
  /\ LET r == Enter(p, "chunk-and-embed")
         c == [r EXCEPT
                 !.calls = @ \cup {"embed"},
                 !.flag = "absent",
                 !.writes = @ \cup {"item"},
                 !.rec = VideoRecordOf(version, r.videoId, r.transcript,
                                       r.extractedData, now)]
     IN /\ videos' = InsertVideoOnConflictDoUpdate(videos, c.rec, now)
        /\ \/ Return(p, [c EXCEPT !.pc = "insert-chunks"])
           \/ Throw(p, c)
  /\ UNCHANGED <<chunks, vectorStore, indexCreated, now, nstarted, universe, chunker, search, files, version>>

\* Variant: the step chunks, embeds and stores whatever alreadyExists says.
chunkAndEmbedStepIgnoringExists(p) ==
  /\ run[p].pc = "chunk-and-embed"
  /\ LET r == Enter(p, "chunk-and-embed")
         c == [r EXCEPT
                 !.calls = @ \cup {"embed"},
                 !.flag = "absent",
                 !.rec = VideoRecordOf(version, r.videoId, r.transcript,
                                       r.extractedData, now)]
     IN \/ Return(p, [c EXCEPT !.pc = "insert-video"])
        \/ Throw(p, c)
  /\ UNCHANGED <<videos, chunks, vectorStore, indexCreated, now, nstarted,
                 universe, chunker, search, files, version>>

\* chunkAndEmbedStep up to its first await: the count query when the video
\* exists, else chunkText, the records and embedMany.
chunkAndEmbedStep(p) ==
  /\ run[p].pc = "chunk-and-embed"
  /\ LET r == Enter(p, "chunk-and-embed")
     IN IF r.exists
        THEN \/ Return(p, [r EXCEPT
                             !.chunksCreated = Cardinality(ChunkRows(r.videoId)),
                             !.embeddingsGenerated = Cardinality(ChunkRows(r.videoId)),
                             !.flag = "absent",
                             !.pc = "select-chunks"])
             \/ Throw(p, r)
        ELSE LET c == [r EXCEPT
                         !.calls = @ \cup {"embed"},
                         !.flag = "absent",
                         !.rec = VideoRecordOf(version, r.videoId, r.transcript,
                                               r.extractedData, now)]
             IN \/ Return(p, [c EXCEPT !.pc = "insert-video"])
                \/ Throw(p, c)
  /\ UNCHANGED <<videos, chunks, vectorStore, indexCreated, now, nstarted,
                 universe, chunker, search, files, version>>

\* chunkAndEmbedStep, video exists: select().from(chunks).where(videoId)
selectChunks(p) ==
  /\ run[p].pc = "select-chunks"
  /\ \/ Return(p, [run[p] EXCEPT !.chunkRecords = ChunkRows(run[p].videoId),
                                 !.pc = "select-video"])
     \/ Throw(p, run[p])
  /\ UNCHANGED <<videos, chunks, vectorStore, indexCreated, now, nstarted,
                 universe, chunker, search, files, version>>

\* chunkAndEmbedStep, video exists: select().from(videos).where(id); return
selectVideo(p) ==
  /\ run[p].pc = "select-video"
  /\ LET videoResult == VideoRows(run[p].videoId)
     IN \/ Finish(p, [run[p] EXCEPT
                        !.outRecord = IF videoResult = {} THEN NoRecord
                                      ELSE CHOOSE v \in videoResult : TRUE,
                        !.videoFileDeleted = TRUE])
        \/ Throw(p, run[p])
  /\ UNCHANGED <<videos, chunks, vectorStore, indexCreated, now, nstarted,
                 universe, chunker, search, files, version>>

\* chunkAndEmbedTranscript: the upsert of the video record.
insertVideo(p) ==
  /\ run[p].pc = "insert-video"
  /\ LET r == run[p]
     IN \/ /\ videos' = InsertVideoOnConflictDoUpdate(videos, r.rec, now)
           /\ now' = now + 1
           /\ Return(p, [r EXCEPT
                           !.writes = @ \cup {"item"},
                           !.pc = IF NumChunks[r.transcript] = 0
                                  THEN "create-index" ELSE "insert-chunks"])
        \/ /\ Throw(p, r)
           /\ UNCHANGED <<videos, now>>
  /\ UNCHANGED <<chunks, vectorStore, indexCreated, nstarted, universe, chunker, search, files, version>>

\* Variant: an insert that fails is caught inside the loop, which goes on.
insertChunksBestEffort(p) ==
  /\ run[p].pc = "insert-chunks"
  /\ LET r == run[p]
         chunk == NewChunkRecord(r.videoId, r.transcript, r.extractedData,
                                 r.i, r.rec.createdAt)
         next == [r EXCEPT !.i = r.i + 1,
                           !.pc = IF r.i + 1 < NumChunks[r.transcript]
                                  THEN "insert-chunks" ELSE "create-index"]
     IN \/ /\ chunks' = InsertChunkOnConflictDoNothing(chunks, chunk)
           /\ Return(p, [next EXCEPT !.writes = @ \cup {"segment"}])
        \/ /\ nfaults < MaxFaults
           /\ nfaults' = nfaults + 1
           /\ run' = [run EXCEPT ![p] = [next EXCEPT !.faults = @ + 1]]
           /\ UNCHANGED <<chunks, lastDone>>
  /\ UNCHANGED <<videos, vectorStore, indexCreated, now, nstarted, universe, chunker, search, files, version>>

\* chunkAndEmbedTranscript: one iteration of for (const chunk of chunkRecords).
insertChunks(p) ==
  /\ run[p].pc = "insert-chunks"
  /\ LET r == run[p]
         chunk == NewChunkRecord(r.videoId, r.transcript, r.extractedData,
                                 r.i, r.rec.createdAt)
     IN \/ /\ chunks' = InsertChunkOnConflictDoNothing(chunks, chunk)
           /\ Return(p, [r EXCEPT
                           !.writes = @ \cup {"segment"},
                           !.i = r.i + 1,
                           !.pc = IF r.i + 1 < NumChunks[r.transcript]
                                  THEN "insert-chunks" ELSE "create-index"])
        \/ /\ Throw(p, r)
           /\ UNCHANGED chunks
  /\ UNCHANGED <<videos, vectorStore, indexCreated, now, nstarted, universe, chunker, search, files, version>>

\* Variant: what createIndex throws for an index that exists fails the run.
createIndexRethrowing(p) ==
  /\ run[p].pc = "create-index"
  /\ \/ /\ indexCreated' = TRUE
        /\ Return(p, [run[p] EXCEPT !.pc = "upsert-vectors"])
     \/ /\ indexCreated
        /\ Raise(p, [run[p] EXCEPT !.indexConflict = TRUE])
        /\ UNCHANGED <<indexCreated, nfaults>>
  /\ UNCHANGED <<videos, chunks, vectorStore, now, nstarted, universe, chunker, search, files, version>>

\* chunkAndEmbedTranscript: try { createIndex } catch { }. createIndex
\* creates the index, leaves the one that exists, throws "already exists"
\* for it, or throws another error; part_001 rethrows the latter.
createIndex(p) ==
  /\ run[p].pc = "create-index"
  /\ \/ /\ indexCreated' = TRUE
        /\ Return(p, [run[p] EXCEPT !.pc = "upsert-vectors"])
     \/ /\ indexCreated
        /\ Return(p, [run[p] EXCEPT !.pc = "upsert-vectors",
                                    !.indexConflict = TRUE])
        /\ UNCHANGED indexCreated
     \/ /\ version = "workflow"
        /\ nfaults < MaxFaults
        /\ nfaults' = nfaults + 1
        /\ run' = [run EXCEPT ![p] = [run[p] EXCEPT !.pc = "upsert-vectors",
                                                    !.faults = @ + 1]]
        /\ UNCHANGED <<indexCreated, lastDone>>
     \/ /\ version = "part001"
        /\ Throw(p, run[p])
        /\ UNCHANGED indexCreated
  /\ UNCHANGED <<videos, chunks, vectorStore, now, nstarted, universe, chunker, search, files, version>>

\* chunkAndEmbedTranscript: vectorStore.upsert and the return.
upsertVectors(p) ==
  /\ run[p].pc = "upsert-vectors"
  /\ LET r == run[p]
     IN \/ /\ indexCreated
           /\ vectorStore' = VectorUpsert(vectorStore, ChunkRecordsOf(r))
           /\ Finish(p, [r EXCEPT
                           !.writes = @ \cup {"vector"},
                           !.chunksCreated = NumChunks[r.transcript],
                           !.embeddingsGenerated = NumChunks[r.transcript],
                           !.outRecord = r.rec,
                           !.chunkRecords = ChunkRecordsOf(r)])
        \/ /\ indexCreated
           /\ Throw(p, r)
           /\ UNCHANGED vectorStore
        \/ /\ ~indexCreated
           /\ Raise(p, r)
           /\ UNCHANGED <<vectorStore, nfaults>>
  /\ UNCHANGED <<videos, chunks, indexCreated, now, nstarted, universe, chunker, search, files, version>>

(* ------------------------------------------------------------------ spec *)

Next ==
  \/ \E p \in Procs, id \in Ids : Start(p, id)
  \/ \E p \in Procs : checkVideoStep(p)
  \/ \E p \in Procs : downloadVideoStep(p)
  \/ \E p \in Procs : getTranscriptStep(p)
  \/ \E p \in Procs : getTranscript(p)
  \/ \E p \in Procs : extractDataStep(p)
  \/ \E p \in Procs : chunkAndEmbedStep(p)
  \/ \E p \in Procs : selectChunks(p)
  \/ \E p \in Procs : selectVideo(p)
  \/ \E p \in Procs : insertVideo(p)
  \/ \E p \in Procs : insertChunks(p)
  \/ \E p \in Procs : createIndex(p)
  \/ \E p \in Procs : upsertVectors(p)

Spec == Init /\ [][Next]_vars

\* The same workflow with callers that ingest either of two videos.
InitTwoIds ==
  /\ videos = {}
  /\ chunks = {}
  /\ vectorStore = {}
  /\ indexCreated = FALSE
  /\ now = 0
  /\ run = [p \in Procs |-> IdleRun]
  /\ nstarted = 0
  /\ nfaults = 0
  /\ lastDone = [id \in Ids |-> NoneYet]
  /\ universe = Ids
  /\ chunker = ChunkerIdle
  /\ search = SearchIdle
  /\ files = {}
  /\ version \in Versions

SpecTwoIds == InitTwoIds /\ [][Next]_vars

(* ---------------------------------------------------- chunkText on its own *)

\* The letter of a text at a position that holds no space; neighbouring
\* positions hold different letters.
Letters == <<"a", "b", "c">>

\* The texts of at most MaxLen characters, with spaces at any positions.
Texts ==
  UNION {{[k \in 1..n |-> IF k \in S THEN " " ELSE Letters[(k % 3) + 1]] :
            S \in SUBSET (1..n)} : n \in 0..MaxLen}

\* text, chunkSize and overlap of a call, with 0 <= overlap < chunkSize.
ChunkerInputs ==
  {[pc |-> "called", text |-> t, chunkSize |-> cs, overlap |-> ov,
    chunks |-> <<>>, starts |-> <<>>, terminated |-> FALSE] :
     t \in Texts, cs \in 1..MaxTarget, ov \in 0..(MaxTarget - 1)}

InitChunker ==
  /\ videos = {}
  /\ chunks = {}
  /\ vectorStore = {}
  /\ indexCreated = FALSE
  /\ now = 0
  /\ run = [p \in Procs |-> IdleRun]
  /\ nstarted = 0
  /\ nfaults = 0
  /\ lastDone = [id \in Ids |-> NoneYet]
  /\ universe = {}
  /\ search = SearchIdle
  /\ files = {}
  /\ version = "workflow"
  /\ chunker \in {c \in ChunkerInputs : c.overlap < c.chunkSize}

\* chunkText(text, chunkSize, overlap) runs; the loop is followed for at most
\* MaxIter iterations.
chunkTextCall ==
  /\ chunker.pc = "called"
  /\ LET loop == ChunkLoop(chunker.text, chunker.chunkSize, chunker.overlap,
                           0, <<>>, <<>>, MaxIter)
     IN chunker' = [chunker EXCEPT
                      !.pc = "returned",
                      !.chunks = IF loop.terminated
                                 THEN chunkText(chunker.text, chunker.chunkSize,
                                                chunker.overlap)
                                 ELSE loop.chunks,
                      !.starts = loop.starts,
                      !.terminated = loop.terminated]
  /\ UNCHANGED <<videos, chunks, vectorStore, indexCreated, now, run,
                 nstarted, nfaults, lastDone, universe, search, files, version>>

NextChunker == chunkTextCall

SpecChunker == InitChunker /\ [][NextChunker]_vars

(* ----------------------------------------------------------- search data *)

\* topK = 10
DefaultTopK == 10

\* Values of the query argument: absent, empty, blank, a text.
Queries == {"#undefined", "", "  ", "rag"}

\* String.prototype.trim on the values of Queries.
Trim(q) == IF q = "  " THEN "" ELSE q

\* Variant: the query is tested without trim().
HasQueryTextUntrimmed(q) == q \notin {"#undefined", ""}

\* query?.trim() is truthy.
HasQueryText(q) == q # "#undefined" /\ Trim(q) # ""

\* The filter argument: given or undefined, the keys the object has, and
\* the values of its tags, content and summaryContains keys. The tag key of
\* part_004 holds the one element of tags.
NoFilter ==
  [given |-> FALSE, keys |-> {}, tags |-> <<>>, content |-> "",
   summaryContains |-> "", speakerContains |-> ""]

FilterOf(keys, tags, content) ==
  [given |-> TRUE, keys |-> keys, tags |-> tags, content |-> content,
   summaryContains |-> "", speakerContains |-> ""]

\* {summaryContains: text}
SummaryFilter(text) ==
  [FilterOf({"summaryContains"}, <<>>, "") EXCEPT !.summaryContains = text]

\* {tags: [...], summaryContains: text}
TagsAndSummaryFilter(tags, text) ==
  [FilterOf({"tags", "summaryContains"}, tags, "")
     EXCEPT !.summaryContains = text]

\* {speakerContains: text}
SpeakerFilter(text) ==
  [FilterOf({"speakerContains"}, <<>>, "") EXCEPT !.speakerContains = text]

\* content is a key of the filter of tools/retrieval-tool.ts only, tag of
\* that of part_004 only.
Filters ==
  {NoFilter, FilterOf({}, <<>>, ""),
   FilterOf({"tags"}, <<"ai">>, ""), FilterOf({"tags"}, <<"none">>, ""),
   FilterOf({"content"}, <<>>, "a"), FilterOf({"tags", "content"}, <<"ai">>, "a"),
   SummaryFilter("su"), SummaryFilter("zz"),
   FilterOf({"tag"}, <<"ai">>, ""), FilterOf({"tag"}, <<"none">>, ""),
   FilterOf({"tags"}, <<"none", "ai">>, ""), FilterOf({"tags"}, <<"a">>, ""),
   FilterOf({"tags"}, <<"AI">>, ""), FilterOf({"tag"}, <<"AI">>, ""),
   SummaryFilter("SU"),
   TagsAndSummaryFilter(<<"ai">>, "zz"), TagsAndSummaryFilter(<<"ai">>, "su"),
   SpeakerFilter("Sh")}

\* The keys the filter type of each version declares, among those modelled.
FilterKeys(impl) ==
  CASE impl = "index" -> {"tags", "summaryContains", "speakerContains"}
    [] impl = "tool" -> {"tags", "summaryContains", "speakerContains", "content"}
    [] impl = "part004" -> {"tag"}

\* The three versions of unifiedSearch: that of index.ts, that of
\* tools/retrieval-tool.ts, whose tool schema leaves mode at "auto", and
\* that of part_004, whose functions catch what their collaborators throw.
Impls == {"index", "tool", "part004"}

\* The characters of the summaries and of the summaryContains patterns.
CharsOf(str) ==
  CASE str = "sum" -> <<"s", "u", "m">>
    [] str = "su" -> <<"s", "u">>
    [] str = "zz" -> <<"z", "z">>
    [] str = "SU" -> <<"S", "U">>
    [] OTHER -> <<>>

\* String.prototype.toLowerCase and lower() on the tags modelled.
ToLowerCase(str) == IF str = "AI" THEN "ai" ELSE str

\* like(text, `%${pattern}%`) on texts without % and _
Like(text, pattern) ==
  LET t == CharsOf(text)
      q == CharsOf(pattern)
  IN \E at \in 0..(Len(t) - Len(q)) : SubSeq(t, at + 1, at + Len(q)) = q

Range(f) == {f[k] : k \in DOMAIN f}

RECURSIVE OrderByCreatedAt(_)
\* .orderBy(schema.videos.createdAt)
OrderByCreatedAt(rows) ==
  IF rows = {} THEN <<>>
  ELSE LET first == CHOOSE v \in rows : \A w \in rows : v.createdAt <= w.createdAt
       IN <<first>> \o OrderByCreatedAt(rows \ {first})

\* queryVideos(filters): the rows that satisfy every condition pushed for
\* a key of the filter, by creation time; no condition selects every row.
\* tags: metadata->'tags' @> '["tag"]' of tools/retrieval-tool.ts, an element
\* equal to the tag; tag: lower((metadata->'tags')::text) like
\* %"tag.toLowerCase()"% of part_004, an element equal to it in lower case.
queryVideos(tbl, filters) ==
  OrderByCreatedAt(
    {v \in tbl :
       /\ ("tags" \in filters.keys /\ Len(filters.tags) > 0)
            => \E k \in 1..Len(filters.tags) :
                 filters.tags[k] \in Range(v.metadata.tags)
       /\ ("summaryContains" \in filters.keys /\ filters.summaryContains # "")
            => Like(v.metadata.summary, filters.summaryContains)
       /\ ("tag" \in filters.keys /\ Len(filters.tags) > 0)
            => ToLowerCase(filters.tags[1])
                 \in {ToLowerCase(x) : x \in Range(v.metadata.tags)}})

\* The select of queryVideos is rejected by the database: the :: of
\* metadata->'speakers'::text binds to the key, so that like() is given a
\* jsonb value (speakerContains, in index.ts and tools/retrieval-tool.ts)
\* and lower() is given one (tags, in index.ts).
QueryRejected(impl, filters) ==
  \/ /\ impl \in {"index", "tool"}
     /\ "speakerContains" \in filters.keys
     /\ filters.speakerContains # ""
  \/ /\ impl = "index"
     /\ "tags" \in filters.keys
     /\ Len(filters.tags) > 0

\* metadata.speakers || [] and its siblings.
OrEmpty(list) == IF list \in {Null, Undefined} THEN <<>> ELSE list

\* videos.map((v) => ({videoId: v.id, ...})) of index.ts
VideoSummaries(rows) ==
  [k \in 1..Len(rows) |->
     [videoId |-> rows[k].id,
      summary |-> rows[k].metadata.summary,
      speakers |-> OrEmpty(rows[k].metadata.speakers),
      keyTopics |-> OrEmpty(rows[k].metadata.keyTopics),
      tags |-> OrEmpty(rows[k].metadata.tags),
      processedAt |-> rows[k].createdAt]]

\* The similarity the index gives a stored vector for the query vector.
Score(x) ==
  IF x.metadata.videoId = "v1" THEN 90 - 10 * x.id[2] ELSE 85 - 10 * x.id[2]

RECURSIVE NearestFirst(_)
NearestFirst(rows) ==
  IF rows = {} THEN <<>>
  ELSE LET best == CHOOSE x \in rows : \A y \in rows : Score(x) >= Score(y)
       IN <<best>> \o NearestFirst(rows \ {best})

\* The filter handed to vectorStore.query: videoId: {$in: videoIds} when
\* restricted, content: {$regex} when content is not "".
NoPgFilter == [restricted |-> FALSE, videoIds |-> {}, content |-> ""]

\* {$regex: content, $options: "i"} on the text of a chunk.
ContentMatches(content, pattern) ==
  \E k \in 1..Len(ChunksOf[content[1]][content[2] + 1]) :
    ChunksOf[content[1]][content[2] + 1][k] = pattern

\* Variant: the index ignores the videoId condition of the filter.
VectorQueryAnyVideo(store, topK, pgFilter) ==
  LET hits == {x \in store :
                 pgFilter.content # ""
                   => ContentMatches(x.metadata.content, pgFilter.content)}
      ranked == NearestFirst(hits)
  IN [k \in 1..Min(topK, Len(ranked)) |->
        [id |-> ranked[k].id, score |-> Score(ranked[k]),
         metadata |-> ranked[k].metadata]]

\* vectorStore.query({indexName, queryVector, topK, filter})
VectorQuery(store, topK, pgFilter) ==
  LET hits == {x \in store :
                 /\ pgFilter.restricted => x.metadata.videoId \in pgFilter.videoIds
                 /\ pgFilter.content # ""
                      => ContentMatches(x.metadata.content, pgFilter.content)}
      ranked == NearestFirst(hits)
  IN [k \in 1..Min(topK, Len(ranked)) |->
        [id |-> ranked[k].id, score |-> Score(ranked[k]),
         metadata |-> ranked[k].metadata]]

\* A chunk that enrichment returned as it was.
NoVideoInfo ==
  [videoId |-> "none", summary |-> "#none", speakers |-> <<>>,
   keyTopics |-> <<>>, tags |-> <<>>, processedAt |-> -1]

\* Variant: the enriched chunks come out last first.
EnrichedReversed(rawChunks, rows) ==
  [k \in 1..Len(rawChunks) |->
     LET chunk == rawChunks[Len(rawChunks) + 1 - k]
         found == {v \in rows : v.id = chunk.metadata.videoId}
     IN [id |-> chunk.id, score |-> chunk.score, metadata |-> chunk.metadata,
         videoInfo |->
           IF found = {} THEN NoVideoInfo
           ELSE LET video == CHOOSE v \in found : TRUE
                IN [videoId |-> video.id,
                    summary |-> video.metadata.summary,
                    speakers |-> OrEmpty(video.metadata.speakers),
                    keyTopics |-> OrEmpty(video.metadata.keyTopics),
                    tags |-> OrEmpty(video.metadata.tags),
                    processedAt |-> video.createdAt]]]

\* enrichChunksWithVideoData: chunks.map(...) over the rows read.
Enriched(rawChunks, rows) ==
  [k \in 1..Len(rawChunks) |->
     LET found == {v \in rows : v.id = rawChunks[k].metadata.videoId}
     IN [id |-> rawChunks[k].id, score |-> rawChunks[k].score,
         metadata |-> rawChunks[k].metadata,
         videoInfo |->
           IF found = {} THEN NoVideoInfo
           ELSE LET video == CHOOSE v \in found : TRUE
                IN [videoId |-> video.id,
                    summary |-> video.metadata.summary,
                    speakers |-> OrEmpty(video.metadata.speakers),
                    keyTopics |-> OrEmpty(video.metadata.keyTopics),
                    tags |-> OrEmpty(video.metadata.tags),
                    processedAt |-> video.createdAt]]]

\* return {videos: [], chunks: []}
EmptyResult == [videos |-> <<>>, chunks |-> <<>>]

\* return {videos: videos.map(...), chunks: []}
BrowseResult(rows) == [videos |-> VideoSummaries(rows), chunks |-> <<>>]

\* Variant: the videos resolved by the filter are returned with the chunks.
SemanticResultWithVideos(rows, found) ==
  [videos |-> VideoSummaries(rows), chunks |-> found]

\* return {videos: [], chunks: enrichedChunks}
SemanticResult(rows, found) == [videos |-> <<>>, chunks |-> found]

\* videos.map((v) => ({id: v.id, title: v.title, ...})) and the return of
\* tools/retrieval-tool.ts; the rows have no title.
BrowseResultWithTitle(rows) ==
  [videos |-> [k \in 1..Len(rows) |->
                 [id |-> rows[k].id,
                  title |-> "#undefined",
                  summary |-> rows[k].metadata.summary,
                  speakers |-> OrEmpty(rows[k].metadata.speakers),
                  keyTopics |-> OrEmpty(rows[k].metadata.keyTopics),
                  tags |-> OrEmpty(rows[k].metadata.tags),
                  createdAt |-> rows[k].createdAt]],
   chunks |-> <<>>]

(* --------------------------------------------------------- search stores *)

\* The stores a search may find: each video absent, stored without vectors
\* (its ingest failed after the video upsert) or stored with its vectors.
SearchItems ==
  {NewVideoRecord("v1", "TA", CHOOSE e \in ExtractedSet : e.summary = "sum", 0),
   NewVideoRecord("v2", "TB", CHOOSE e \in ExtractedSet : e.summary = "", 1)}

ChunkRowsOfItem(v) ==
  {NewChunkRecord(v.id, v.fullTranscript,
                  [summary |-> v.metadata.summary,
                   keyTopics |-> v.metadata.keyTopics,
                   speakers |-> v.metadata.speakers,
                   actionItems |-> v.metadata.actionItems,
                   tags |-> v.metadata.tags],
                  k, v.createdAt) :
     k \in 0..(NumChunks[v.fullTranscript] - 1)}

SearchStores ==
  {[videos |-> V, chunks |-> UNION {ChunkRowsOfItem(v) : v \in W}] :
     V \in SUBSET SearchItems, W \in SUBSET SearchItems}

\* The arguments of a call of the search tool.
SearchInputs ==
  {[pc |-> "called", impl |-> i, query |-> q, filter |-> f, topK |-> k,
    searchMode |-> "auto", matched |-> <<>>, pgFilter |-> NoPgFilter,
    rawChunks |-> <<>>, out |-> EmptyResult, accesses |-> <<>>,
    caught |-> <<>>] :
     i \in Impls, q \in Queries, f \in Filters, k \in {2, DefaultTopK}}

InitSearch ==
  /\ \E st \in SearchStores :
       /\ \A c \in st.chunks : \E v \in st.videos : v.id = c.videoId
       /\ videos = st.videos
       /\ chunks = st.chunks
       /\ vectorStore = VectorUpsert({}, st.chunks)
       /\ indexCreated = (st.chunks # {})
  /\ now = 2
  /\ run = [p \in Procs |-> IdleRun]
  /\ nstarted = 0
  /\ nfaults = 0
  /\ lastDone = [id \in Ids |-> NoneYet]
  /\ universe = {}
  /\ chunker = ChunkerIdle
  /\ search \in {c \in SearchInputs :
                   c.filter.keys \subseteq FilterKeys(c.impl)}
  /\ files = {}
  /\ version = "workflow"

(* ---------------------------------------------------------------- search *)

\* The call returns out.
SearchReturn(c, out) ==
  /\ search' = [c EXCEPT !.pc = "returned", !.out = out]
  /\ UNCHANGED nfaults

\* The call goes on to its next await.
SearchGoto(c, pc) ==
  /\ search' = [c EXCEPT !.pc = pc]
  /\ UNCHANGED nfaults

\* The database, the embedding collaborator or the index fails: the promise
\* of unifiedSearch rejects.
SearchThrow(c) ==
  /\ nfaults < MaxFaults
  /\ nfaults' = nfaults + 1
  /\ search' = [c EXCEPT !.pc = "failed"]

\* Variant: a filter that matches no video does not end the call.
NoVideoMatchesNever(rows) == FALSE

\* if (videoIds.length === 0), if (videos.length === 0)
NoVideoMatches(rows) == Len(rows) = 0

\* part_004: the function named catches what its collaborator threw, logs
\* it and returns its fallback value; the call goes on.
SearchCaught(c, fn) == [c EXCEPT !.caught = Append(@, fn)]

\* tools/retrieval-tool.ts, step 2: the vector search when the mode is
\* semantic and the query is truthy, else the fallback.
SemanticStep(c) ==
  IF c.searchMode = "semantic" /\ c.query \notin {"#undefined", ""}
  THEN SearchGoto([c EXCEPT !.pgFilter.content =
                              IF "content" \in c.filter.keys
                              THEN c.filter.content ELSE ""],
                  "embed")
  ELSE SearchReturn(c, EmptyResult)

\* Variant: without a filter the call browses every video.
unifiedSearchBrowsingAll ==
  /\ search.pc = "called"
  /\ IF ~HasQueryText(search.query)
     THEN SearchGoto([search EXCEPT !.searchMode = "metadata"], "queryVideos")
     ELSE IF search.filter.given /\ search.filter.keys \ {"content"} # {}
          THEN SearchGoto([search EXCEPT !.searchMode = "semantic"],
                          "queryVideos")
          ELSE SearchGoto([search EXCEPT !.searchMode = "semantic"], "embed")
  /\ UNCHANGED <<videos, chunks, vectorStore, indexCreated, now, run,
                 nstarted, lastDone, universe, chunker, files, version>>

\* Variant: a call with query text requests the embedding before it
\* resolves its filter.
unifiedSearchEmbedFirst ==
  /\ search.pc = "called"
  /\ IF HasQueryText(search.query)
     THEN SearchGoto([search EXCEPT !.searchMode = "semantic"], "embed")
     ELSE SearchGoto([search EXCEPT !.searchMode = "metadata"], "queryVideos")
  /\ UNCHANGED <<videos, chunks, vectorStore, indexCreated, now, run,
                 nstarted, lastDone, universe, chunker, files, version>>

\* unifiedSearch up to its first await.
unifiedSearch ==
  /\ search.pc = "called"
  /\ IF search.impl \in {"index", "part004"}
     THEN IF ~HasQueryText(search.query)
          THEN IF ~search.filter.given
               THEN SearchReturn(search, EmptyResult)
               ELSE SearchGoto(search, "queryVideos")
          ELSE IF search.filter.given
               THEN SearchGoto(search, "queryVideos")
               ELSE SearchGoto(search, "embed")
     ELSE LET c == [search EXCEPT
                      !.searchMode = IF HasQueryText(search.query)
                                     THEN "semantic" ELSE "metadata"]
          IN IF c.filter.given /\ c.filter.keys \ {"content"} # {}
             THEN SearchGoto(c, "queryVideos")
             ELSE SemanticStep(c)
  /\ UNCHANGED <<videos, chunks, vectorStore, indexCreated, now, run,
                 nstarted, lastDone, universe, chunker, files, version>>

\* await queryVideos(filter) and what unifiedSearch does with its answer.
resolveFilter ==
  /\ search.pc = "queryVideos"
  /\ LET c == [search EXCEPT !.accesses = Append(@, "metadata")]
         Answered(b, rows) ==
           LET d == [b EXCEPT !.matched = rows,
                              !.pgFilter.restricted = (Len(rows) > 0),
                              !.pgFilter.videoIds =
                                 {rows[k].id : k \in 1..Len(rows)}]
           IN IF b.impl \in {"index", "part004"}
              THEN IF ~HasQueryText(b.query)
                   THEN SearchReturn(d, BrowseResult(rows))
                   ELSE IF NoVideoMatches(rows)
                   THEN SearchReturn(d, EmptyResult)
                   ELSE SearchGoto(d, "embed")
              ELSE IF NoVideoMatches(rows)
                   THEN SearchReturn(d, EmptyResult)
                   ELSE IF b.searchMode = "metadata"
                   THEN SearchReturn(d, BrowseResultWithTitle(rows))
                   ELSE SemanticStep(d)
     IN \/ /\ ~QueryRejected(c.impl, c.filter)
           /\ Answered(c, queryVideos(videos, c.filter))
        \/ /\ QueryRejected(c.impl, c.filter)
           /\ search' = [c EXCEPT !.pc = "failed"]
           /\ UNCHANGED nfaults
        \/ /\ c.impl # "part004"
           /\ SearchThrow(c)
        \/ /\ c.impl = "part004"
           /\ Answered(SearchCaught(c, "queryVideos"), <<>>)
  /\ UNCHANGED <<videos, chunks, vectorStore, indexCreated, now, run,
                 nstarted, lastDone, universe, chunker, files, version>>

\* await embed({model, value: query})
embed ==
  /\ search.pc = "embed"
  /\ LET c == [search EXCEPT !.accesses = Append(@, "embed")]
     IN \/ SearchGoto(c, "vector-query")
        \/ /\ c.impl # "part004"
           /\ SearchThrow(c)
        \/ /\ c.impl = "part004"
           /\ SearchGoto(SearchCaught(c, "searchChunks"), "enrich")
  /\ UNCHANGED <<videos, chunks, vectorStore, indexCreated, now, run,
                 nstarted, lastDone, universe, chunker, files, version>>

\* await vectorStore.query(...); tools/retrieval-tool.ts returns its answer,
\* searchChunks of part_004 returns [] for a query that threw.
vectorStoreQuery ==
  /\ search.pc = "vector-query"
  /\ LET c == [search EXCEPT !.accesses = Append(@, "vector")]
         results == VectorQuery(vectorStore, c.topK, c.pgFilter)
         d == [c EXCEPT !.rawChunks = results]
     IN \/ /\ indexCreated
           /\ IF c.impl \in {"index", "part004"}
              THEN SearchGoto(d, "enrich")
              ELSE SearchReturn(d, SemanticResult(c.matched, results))
        \/ /\ indexCreated
           /\ c.impl # "part004"
           /\ SearchThrow(c)
        \/ /\ ~indexCreated
           /\ c.impl # "part004"
           /\ search' = [c EXCEPT !.pc = "failed"]
           /\ UNCHANGED nfaults
        \/ /\ c.impl = "part004"
           /\ SearchGoto(SearchCaught(c, "searchChunks"), "enrich")
  /\ UNCHANGED <<videos, chunks, vectorStore, indexCreated, now, run,
                 nstarted, lastDone, universe, chunker, files, version>>

\* Variant: enrichment reads the videos table once for each chunk.
enrichChunksOneByOne ==
  /\ search.pc = "enrich"
  /\ LET c == [search EXCEPT
                 !.accesses = @ \o [k \in 1..Len(search.rawChunks) |-> "metadata"]]
     IN SearchReturn(c, SemanticResult(c.matched,
                                       Enriched(c.rawChunks, videos)))
  /\ UNCHANGED <<videos, chunks, vectorStore, indexCreated, now, run,
                 nstarted, lastDone, universe, chunker, files, version>>

\* await enrichChunksWithVideoData(rawChunks) and the return of index.ts.
enrichChunksWithVideoData ==
  /\ search.pc = "enrich"
  /\ LET videoIds == {search.rawChunks[k].metadata.videoId :
                        k \in 1..Len(search.rawChunks)}
         c == [search EXCEPT !.accesses = Append(@, "metadata")]
         rows == {v \in videos : v.id \in videoIds}
     IN IF videoIds = {}
        THEN SearchReturn(search, SemanticResult(search.matched, search.rawChunks))
        ELSE \/ SearchReturn(c, SemanticResult(c.matched,
                                               Enriched(c.rawChunks, rows)))
             \/ /\ c.impl # "part004"
                /\ SearchThrow(c)
             \/ /\ c.impl = "part004"
                /\ SearchReturn(SearchCaught(c, "enrichChunksWithVideoData"),
                                SemanticResult(c.matched, c.rawChunks))
  /\ UNCHANGED <<videos, chunks, vectorStore, indexCreated, now, run,
                 nstarted, lastDone, universe, chunker, files, version>>

NextSearch ==
  \/ unifiedSearch
  \/ resolveFilter
  \/ embed
  \/ vectorStoreQuery
  \/ enrichChunksWithVideoData

SpecSearch == InitSearch /\ [][NextSearch]_vars

(* --------------------------------------------------------------- claims *)

\* Run p is the latest invocation and no other run was in progress at any
\* time between its start and now.
Sequential(p) == run[p].serial = nstarted /\ run[p].alone

\* The rows of run r's id in the three stores are those of its start.
StoresAsAtStart(r) ==
  /\ VideoRows(r.videoId) =
       (IF r.itemAtStart = NoRecord THEN {} ELSE {r.itemAtStart})
  /\ ChunkRows(r.videoId) = r.chunksAtStart
  /\ VectorRows(r.videoId) = r.vectorsAtStart

\* The Item of id is stored with every Segment and every vector of its
\* transcript.
FullyStored(id) ==
  \E v \in VideoRows(id) :
    \A k \in 0..(NumChunks[v.fullTranscript] - 1) :
      /\ \E c \in chunks : c.id = ChunkId(id, k)
      /\ \E x \in vectorStore : x.id = ChunkId(id, k)

\* C1: when ingest(id) has completed successfully and ingest(id) is invoked
\* again and completes, there is exactly one Item record for id, the Segment
\* rows of id are those present when the second call began, and the second
\* call reports the segmentsCreated of the first.
C1_IngestTwiceSame ==
  \A p \in Procs :
    LET r == run[p]
    IN (r.pc = "done" /\ Sequential(p) /\ r.prev.status = "done")
       => /\ Cardinality(VideoRows(r.videoId)) = 1
          /\ Cardinality(ChunkRows(r.videoId)) = Cardinality(r.chunksAtStart)
          /\ r.chunksCreated = r.prev.chunksCreated

\* C2 as written: a second successful ingest of an id leaves created-at as it
\* was and changes updated-at.
C2_SecondIngestBumps ==
  \A p \in Procs :
    LET r == run[p]
    IN (r.pc = "done" /\ Sequential(p) /\ r.prev.status = "done"
        /\ r.itemAtStart # NoRecord)
       => \A v \in VideoRows(r.videoId) :
            /\ v.createdAt = r.itemAtStart.createdAt
            /\ v.updatedAt # r.itemAtStart.updatedAt

\* C2, amended: a stored Item keeps its created-at in every step; its
\* updated-at grows in exactly the steps in which a run upserts the Item
\* (a run whose existence check did not find it) and is unchanged in every
\* other step, those of a run that found the Item included.
C2_Timestamps ==
  [][\A id \in Ids : \A v \in VideoRows(id) :
       \E w \in VideoRows(id)' :
         /\ w.createdAt = v.createdAt
         /\ IF \E p \in Procs : /\ run[p].pc = "insert-video"
                                /\ run[p].videoId = id
                                /\ "item" \in run'[p].writes
            THEN w.updatedAt > v.updatedAt
            ELSE w.updatedAt = v.updatedAt]_vars

\* C2 witness: an Item that a later run has upserted again.
C2_Witness ==
  \E v \in videos : \E p \in Procs :
    /\ run[p].pc = "done" /\ run[p].videoId = v.id /\ run[p].lookupErr
    /\ v.updatedAt > v.createdAt

\* C3: a re-invocation that meets no fault, made after a run of the same id
\* failed, ends with the Item, all its Segments and all its vectors stored.
C3_RetryCompletes ==
  \A p \in Procs :
    LET r == run[p]
    IN (r.pc = "done" /\ Sequential(p) /\ r.prev = Failed /\ r.faults = 0)
       => FullyStored(r.videoId)

\* C4: once a run has ended, either every Segment it produced is in the
\* Segment Store or none is; and every stored Segment has its Item stored.
C4_SegmentsAllOrNothing ==
  /\ \A p \in Procs :
       LET r == run[p]
           stored == {c \in ChunkRecordsOf(r) : \E x \in chunks : x.id = c.id}
       IN (Ended(r) /\ r.rec # NoRecord /\ r.chunksAtStart = {} /\ Sequential(p))
          => (stored = {} \/ stored = ChunkRecordsOf(r))
  /\ \A c \in chunks : VideoRows(c.videoId) # {}

\* C5: a failure of ACQUIRE_CONTENT, TRANSCRIBE or EXTRACT_INSIGHTS ends the
\* run at that stage, and the run has written to no store.
C5_EarlyFailureWritesNothing ==
  \A p \in Procs :
    LET r == run[p]
    IN r.failedAt \in {"download-video", "get-transcript", "extract-data"}
       => /\ r.pc = "failed"
          /\ r.trace[Len(r.trace)] = r.failedAt
          /\ r.writes = {}
          /\ Sequential(p) => StoresAsAtStart(r)

\* C5 witness: a run whose insight extraction failed after acquisition and
\* transcription.
C5_Witness ==
  \E p \in Procs :
    /\ run[p].pc = "failed" /\ run[p].failedAt = "extract-data"
    /\ run[p].calls = {"acquire", "transcribe", "extract"}

\* C6: a run that fails at the embedding request of CHUNK_AND_EMBED has
\* written no Item, no Segment and no vector.
C6_EmbeddingFailureWritesNothing ==
  \A p \in Procs :
    LET r == run[p]
    IN (r.failedAt = "chunk-and-embed" /\ ~r.exists)
       => /\ r.pc = "failed"
          /\ "embed" \in r.calls
          /\ r.writes = {}
          /\ Sequential(p) => StoresAsAtStart(r)

\* C6 witness: a run failed by the embedding collaborator.
C6_Witness ==
  \E p \in Procs :
    /\ run[p].pc = "failed" /\ run[p].failedAt = "chunk-and-embed"
    /\ ~run[p].exists /\ "embed" \in run[p].calls

C8_LookupErrorFailsOpen ==
  \A p \in Procs :
    LET r == run[p]
        entered(s) == \E k \in 1..Len(r.trace) : r.trace[k] = s
    IN r.lookupErr
       => /\ ~r.exists
          /\ r.failedAt # "check-video"
          /\ r.pc # "check-video"
          /\ entered("download-video") => "acquire" \in r.calls
          /\ entered("get-transcript") => "transcribe" \in r.calls
          /\ entered("extract-data") => "extract" \in r.calls
          /\ entered("chunk-and-embed") => "embed" \in r.calls
          /\ r.pc = "done" => r.writes = {"item", "segment", "vector"}

\* C8 witness: a run whose lookup errored while the Item was stored, and
\* which has completed.
C8_Witness ==
  \E p \in Procs :
    /\ run[p].lookupErr /\ run[p].pc = "done"
    /\ run[p].itemAtStart # NoRecord

\* C9: the stages a run has entered are an initial part of CHECK_EXISTING,
\* ACQUIRE_CONTENT, TRANSCRIBE, EXTRACT_INSIGHTS, CHUNK_AND_EMBED, each once;
\* a run waiting at a stage has entered exactly the stages before it, a run
\* awaiting a collaborator inside a stage those up to it, and a run that is
\* done has entered all five.
C9_StageOrder ==
  LET order == <<"check-video", "download-video", "get-transcript",
                 "extract-data", "chunk-and-embed">>
  IN \A p \in Procs :
       LET r == run[p]
       IN /\ Len(r.trace) <= 5
          /\ \A k \in 1..Len(r.trace) : r.trace[k] = order[k]
          /\ \A k \in 1..5 :
               r.pc = order[k]
                 => Len(r.trace) = IF r.awaiting = "none" THEN k - 1 ELSE k
          /\ r.pc = "done" => Len(r.trace) = 5

\* C9 witness: a run that is done.
C9_Witness == \E p \in Procs : run[p].pc = "done" /\ ~run[p].exists

\* C10: once two runs of one id that overlapped in time have both ended,
\* the id has exactly one Item record if either run upserted it, and no
\* segment id has two Segment rows or two vectors.
C10_ConcurrentNoDuplicates ==
  (/\ \A p \in Procs : Ended(run[p])
   /\ \E p \in Procs : ~run[p].alone
   /\ \A p, q \in Procs : run[p].videoId = run[q].videoId)
  => \A id \in Ids :
       /\ (\E p \in Procs : run[p].videoId = id /\ "item" \in run[p].writes)
            => Cardinality(VideoRows(id)) = 1
       /\ \A c, d \in chunks : c.id = d.id => c = d
       /\ \A x, y \in vectorStore : x.id = y.id => x = y

\* C10 witness: two overlapping runs of one id that both called the four
\* collaborators with different transcripts and both completed.
C10_Witness ==
  /\ \A p \in Procs :
       /\ run[p].pc = "done"
       /\ run[p].calls = {"acquire", "transcribe", "extract", "embed"}
  /\ \E p \in Procs : ~run[p].alone
  /\ \E p, q \in Procs : run[p].transcript # run[q].transcript

\* C11: a step changes the Items, Segments or vectors of an id only when it
\* is a step of a run of that id, and every record a run holds for its result
\* (the Item found by the existence check, the Item and the Segments it
\* returns) is a record of the id it ingests.
C11_IndependentIds ==
  [][/\ \A id \in Ids :
          (\/ VideoRows(id)' # VideoRows(id)
           \/ ChunkRows(id)' # ChunkRows(id)
           \/ VectorRows(id)' # VectorRows(id))
          => \E p \in Procs : /\ run[p].videoId = id
                              /\ Running(run[p])
                              /\ run'[p] # run[p]
     /\ \A p \in Procs :
          LET r == run'[p]
          IN /\ r.videoRecord # NoRecord => r.videoRecord.id = r.videoId
             /\ r.outRecord # NoRecord => r.outRecord.id = r.videoId
             /\ r.rec # NoRecord => r.rec.id = r.videoId
             /\ \A c \in r.chunkRecords : c.videoId = r.videoId
             /\ r.pc = "done" /\ r.exists =>
                  r.chunksCreated <=
                    Cardinality({c \in chunks' : c.videoId = r.videoId})]_vars

\* C11 witness: overlapping runs of two different ids have both completed
\* and both ids have Segments and vectors.
C11_Witness ==
  /\ \A p \in Procs : run[p].pc = "done" /\ ~run[p].alone
  /\ \E p, q \in Procs : run[p].videoId # run[q].videoId
  /\ \A id \in Ids : ChunkRows(id) # {} /\ VectorRows(id) # {}

\* The 0-based position in text at which text.slice(start, end) begins.
SliceFrom(text, start) ==
  IF start < 0 THEN Max(Len(text) + start, 0) ELSE Min(start, Len(text))

\* The segments joined in order, each without the characters before the end
\* of what has been joined so far; at[k] is the position of segment k.
RECURSIVE Rejoin(_, _, _)
Rejoin(segments, at, acc) ==
  IF segments = <<>> THEN acc
  ELSE LET seg == Head(segments)
           keep == IF at[1] >= Len(acc) THEN seg
                   ELSE JsSlice(seg, Len(acc) - at[1], Len(seg))
       IN Rejoin(Tail(segments), Tail(at), acc \o keep)

\* C12: chunkText returns: its loop ends, and it never comes back to a value
\* of start that it has had, from where it would repeat itself for ever.
C12_ChunkerTerminates ==
  chunker.pc = "returned"
  => /\ chunker.terminated
     /\ \A i, j \in 1..Len(chunker.starts) :
          chunker.starts[i] = chunker.starts[j] => i = j

\* C13: when chunkText has returned, its segments rejoined with the overlaps
\* dropped are the text.
C13_RejoinReconstructs ==
  (chunker.pc = "returned" /\ chunker.terminated)
  => Rejoin(chunker.chunks,
            [k \in 1..Len(chunker.starts) |->
               SliceFrom(chunker.text, chunker.starts[k])],
            <<>>) = chunker.text

\* The window text.slice(start, end) examined by iteration k of call c.
Window(c, k) ==
  JsSlice(c.text, c.starts[k], Min(c.starts[k] + c.chunkSize, Len(c.text)))

\* Iteration k of call c took the branch that pushes the window and breaks.
IsLast(c, k) == ~(Min(c.starts[k] + c.chunkSize, Len(c.text)) < Len(c.text))

\* 0-based positions of the first character of segment k of call c and of
\* the character after its last.
SegFrom(c, k) == SliceFrom(c.text, c.starts[k])

SegTo(c, k) == SegFrom(c, k) + Len(c.chunks[k])

\* The boundary before 0-based position q of text has a non-space character
\* on both sides.
InsideWord(text, q) ==
  q > 0 /\ q < Len(text) /\ text[q] # " " /\ text[q + 1] # " "

C15_SegmentLengthAtMostTarget ==
  chunker.pc = "returned"
  => \A k \in 1..Len(chunker.chunks) :
       Len(chunker.chunks[k]) <= chunker.chunkSize

\* C15 witness: a call that returned three segments or more, one of them of
\* chunkSize characters.
C15_Witness ==
  /\ chunker.pc = "returned" /\ chunker.terminated
  /\ Len(chunker.chunks) >= 3
  /\ \E k \in 1..Len(chunker.chunks) :
       Len(chunker.chunks[k]) = chunker.chunkSize

\* C16: the empty text gives no segment, and a text of 1 to chunkSize
\* characters gives one segment, the text.
C16_EdgeCases ==
  chunker.pc = "returned"
  => /\ chunker.text = <<>> => chunker.chunks = <<>>
     /\ Len(chunker.text) \in 1..chunker.chunkSize
          => chunker.chunks = <<chunker.text>>

\* C16 witness: a text of exactly chunkSize characters, spaces among them,
\* returned as its only segment.
C16_Witness ==
  /\ chunker.pc = "returned"
  /\ Len(chunker.text) = chunker.chunkSize
  /\ \E k \in 2..Len(chunker.text) : chunker.text[k] = " "
  /\ chunker.chunks = <<chunker.text>>

\* C17: on a text without space chunkText returns, segment k (from 0) is
\* text.slice(k * (chunkSize - overlap), k * (chunkSize - overlap) +
\* chunkSize), the last segment ends at the end of the text and no earlier
\* one does.
C17_NoWhitespaceFixedSlices ==
  (/\ chunker.pc = "returned"
   /\ \A j \in 1..Len(chunker.text) : chunker.text[j] # " ")
  => LET step == chunker.chunkSize - chunker.overlap
         n == Len(chunker.chunks)
     IN /\ chunker.terminated
        /\ Len(chunker.starts) = n
        /\ \A k \in 1..n :
             /\ chunker.starts[k] = (k - 1) * step
             /\ chunker.chunks[k] =
                  JsSlice(chunker.text, (k - 1) * step,
                          (k - 1) * step + chunker.chunkSize)
             /\ Len(chunker.chunks[k]) =
                  Min(chunker.chunkSize, Len(chunker.text) - (k - 1) * step)
             /\ ((k - 1) * step + Len(chunker.chunks[k]) = Len(chunker.text))
                  <=> k = n
        /\ chunker.text # <<>> => n >= 1

\* C17 witness: a text without space cut into three slices or more that
\* overlap.
C17_Witness ==
  /\ chunker.pc = "returned" /\ chunker.overlap > 0
  /\ \A j \in 1..Len(chunker.text) : chunker.text[j] # " "
  /\ Len(chunker.chunks) >= 3

\* The ids of a list of video rows or of video summaries of either version.
BrowsedIds(list) ==
  {IF "id" \in DOMAIN list[k] THEN list[k].id ELSE list[k].videoId :
     k \in 1..Len(list)}

\* The query of the search is absent, empty or blank.
NoQueryText == search.query \in {"#undefined", "", "  "}

\* C18: the result of a search never has both its list of videos and its
\* list of chunks non-empty.
C18_DisjointShapes ==
  search.pc = "returned"
  => ~(search.out.videos # <<>> /\ search.out.chunks # <<>>)

\* C18 witness: a search with a query and a filter that matched a video has
\* returned two chunks or more.
C18_Witness ==
  /\ search.pc = "returned"
  /\ Len(search.matched) >= 1
  /\ Len(search.out.chunks) >= 2

\* C19: a search whose query is absent, empty or blank and that has no
\* filter does not fail, reads no store and calls no collaborator, and
\* returns the empty result.
C19_NoQueryNoFilterIsNoOp ==
  (search.pc # "idle" /\ NoQueryText /\ ~search.filter.given)
  => /\ search.pc \in {"called", "returned"}
     /\ search.accesses = <<>>
     /\ search.pc = "returned" => search.out = EmptyResult

\* C19 witness: a search with a blank query and no filter has returned while
\* videos and vectors are stored.
C19_Witness ==
  /\ search.pc = "returned" /\ search.query = "  " /\ ~search.filter.given
  /\ videos # {} /\ vectorStore # {}

QueryText == search.query = "rag"

\* The call resolves its filter against the videos table.
FilterResolves ==
  /\ search.filter.given
  /\ search.impl = "tool" => search.filter.keys \ {"content"} # {}

\* The ids of the videos the filter of the call selects.
ResolvedIds ==
  LET rows == queryVideos(videos, search.filter)
  IN {rows[k].id : k \in 1..Len(rows)}

\* C21: a search with query text whose filter selects no video returns the
\* empty result and neither calls the embedding collaborator nor queries the
\* index; the index is never queried under a filter that selected no video.
C21_EmptyFilterShortCircuits ==
  /\ (search.pc # "idle" /\ QueryText /\ FilterResolves /\ ResolvedIds = {})
       => /\ search.pc \notin {"embed", "vector-query", "enrich"}
          /\ \A k \in 1..Len(search.accesses) : search.accesses[k] = "metadata"
          /\ search.pc = "returned" => search.out = EmptyResult
  /\ (search.pc = "vector-query" /\ FilterResolves)
       => /\ search.pgFilter.restricted
          /\ search.pgFilter.videoIds # {}

\* C21 witness: unifiedSearch of index.ts has returned for a query with a
\* summaryContains filter that selects none of the stored videos, while the
\* index holds vectors.
C21_Witness ==
  /\ search.pc = "returned"
  /\ search.impl = "index"
  /\ QueryText
  /\ "summaryContains" \in search.filter.keys
  /\ ResolvedIds = {}
  /\ videos # {}
  /\ vectorStore # {}

\* C22: in a search with query text whose filter selects the videos S, S not
\* empty, the index is queried under the restriction videoId in S, with
\* exactly the ids of S, and every chunk returned, and the video
\* information enrichment attached to it, is of a video of S.
C22_SearchWithinResolved ==
  (search.pc # "idle" /\ QueryText /\ FilterResolves /\ ResolvedIds # {})
  => /\ (search.pc = "vector-query"
           \/ \E k \in 1..Len(search.accesses) : search.accesses[k] = "vector")
          => /\ search.pgFilter.restricted
             /\ search.pgFilter.videoIds = ResolvedIds
     /\ search.pc = "returned"
          => \A k \in 1..Len(search.out.chunks) :
               /\ search.out.chunks[k].metadata.videoId \in ResolvedIds
               /\ search.impl = "index"
                    => search.out.chunks[k].videoInfo.videoId \in ResolvedIds

\* C22 witness: unifiedSearch of index.ts has returned enriched chunks for
\* a query with a filter that selects one of two stored videos that both
\* have vectors in the index.
C22_Witness ==
  /\ search.pc = "returned"
  /\ search.impl = "index"
  /\ QueryText
  /\ "summaryContains" \in search.filter.keys
  /\ Cardinality(ResolvedIds) = 1
  /\ Cardinality({x.metadata.videoId : x \in vectorStore}) = 2
  /\ Len(search.out.chunks) >= 2

\* C23: in one call of the search, the read that resolves the filter is the
\* first access and so precedes the embedding request and the index query;
\* the index is queried right after the embedding was obtained; the read of
\* the enrichment comes right after the index query, which answered with
\* chunks.
C23_StagesInOrder ==
  /\ (FilterResolves /\ search.accesses # <<>>)
       => search.accesses[1] = "metadata"
  /\ \A k \in 1..Len(search.accesses) :
       /\ search.accesses[k] = "embed"
            => \A j \in 1..Len(search.accesses) :
                 j > k => search.accesses[j] \in {"vector", "metadata"}
       /\ search.accesses[k] = "vector"
            => k > 1 /\ search.accesses[k - 1] = "embed"
       /\ (search.accesses[k] = "metadata" /\ k > 1)
            => /\ search.accesses[k - 1] = "vector"
               /\ search.rawChunks # <<>>
               /\ k = Len(search.accesses)

\* C23 witness: a call with query text and a filter has returned after the
\* filter read, the embedding request, the index query and the enrichment
\* read, in the unifiedSearch of part_004.
C23_Witness ==
  /\ search.pc = "returned"
  /\ search.impl = "part004"
  /\ search.filter.given
  /\ search.accesses = <<"metadata", "embed", "vector", "metadata">>

\* C24: the chunks a search returns after enrichment are as many as the
\* index answered, and the k-th of them is the k-th of the answer, with its
\* id, score and metadata.
C24_EnrichmentKeepsOrder ==
  (search.pc = "returned" /\ search.impl \in {"index", "part004"}
     /\ \E k \in 1..Len(search.accesses) : search.accesses[k] = "vector")
  => /\ Len(search.out.chunks) = Len(search.rawChunks)
     /\ \A k \in 1..Len(search.rawChunks) :
          /\ search.out.chunks[k].id = search.rawChunks[k].id
          /\ search.out.chunks[k].score = search.rawChunks[k].score
          /\ search.out.chunks[k].metadata = search.rawChunks[k].metadata

\* C24 witness: a search has returned, enriched, three or more chunks of
\* two videos.
C24_Witness ==
  /\ search.pc = "returned"
  /\ search.impl \in {"index", "part004"}
  /\ search.caught = <<>>
  /\ Len(search.accesses) >= 3
  /\ search.accesses[Len(search.accesses)] = "metadata"
  /\ Len(search.rawChunks) >= 3
  /\ Cardinality({search.out.chunks[k].videoInfo.videoId :
                    k \in 1..Len(search.out.chunks)}) = 2

\* C25: whatever the number of chunks the index answered, the videos table
\* is read at most once after the index query of a call.
C25_OneEnrichmentRead ==
  \A k \in 1..Len(search.accesses) :
    search.accesses[k] = "vector"
      => Cardinality({j \in 1..Len(search.accesses) :
                        j > k /\ search.accesses[j] = "metadata"}) <= 1

\* C25 witness: unifiedSearch of index.ts has returned three or more
\* enriched chunks of two videos after one read of the videos table that
\* followed the index query.
C25_Witness ==
  /\ search.pc = "returned"
  /\ search.impl = "index"
  /\ ~search.filter.given
  /\ search.accesses = <<"embed", "vector", "metadata">>
  /\ Len(search.out.chunks) >= 3
  /\ Cardinality({search.out.chunks[k].metadata.videoId :
                    k \in 1..Len(search.out.chunks)}) = 2

\* C26: a search that finds nothing returns; a call fails only when the
\* videos table, the embedding collaborator or the index failed, and a call
\* during which one of them failed does not return a result.
C26_UnavailabilityIsFailure ==
  /\ search.pc = "failed" => (nfaults > 0 \/ ~indexCreated)
  /\ search.pc = "returned" => search.caught = <<>>

\* C27: whenever the get-transcript step of a run that transcribes returns,
\* the audio file of the run's video is not on disk in the state the step
\* returns in, and the step's output says videoFileDeleted.
C27_AudioDeletedOnReturn ==
  [][\A p \in Procs :
       (run[p].pc = "get-transcript" /\ run'[p].pc = "extract-data"
          /\ "transcribe" \in run'[p].calls)
       => /\ run'[p].videoId \notin files'
          /\ run'[p].videoFileDeleted
          /\ run'[p].audio = "deleted"]_vars

\* C27 witness: the get-transcript step of a run has returned a transcript
\* it obtained from the collaborator while another run of the same video
\* has downloaded the audio too.
C27_Witness ==
  \E p \in Procs :
    /\ run[p].pc = "extract-data"
    /\ "transcribe" \in run[p].calls
    /\ run[p].transcript \in Transcripts
    /\ run[p].videoId \notin files
    /\ \E q \in Procs \ {p} :
         /\ run[q].videoId = run[p].videoId
         /\ run[q].pc = "get-transcript"
         /\ run[q].videoFileName = "audio"

\* C28: every stored video that has a transcript has a summary, a string,
\* and tags, a list, in its metadata (the schema of the extraction lets
\* either be empty); and every step that inserts or changes the row of a
\* video sets, in that one step, the transcript and the whole metadata to
\* the transcript and the extracted data of one run.
C28_TranscriptWithInsights ==
  /\ [](\A v \in videos :
          v.fullTranscript \in Transcripts
            => /\ v.metadata.summary # "#none"
               /\ v.metadata.tags \notin {Null, Undefined})
  /\ [][\A id \in Ids :
          VideoRows(id)' # VideoRows(id)
            => \E p \in Procs :
                 /\ run[p].videoId = id
                 /\ \A v \in VideoRows(id)' :
                      /\ v.fullTranscript = run[p].transcript
                      /\ v.metadata.summary = run[p].extractedData.summary
                      /\ v.metadata.speakers = run[p].extractedData.speakers
                      /\ v.metadata.keyTopics = run[p].extractedData.keyTopics
                      /\ v.metadata.actionItems = run[p].extractedData.actionItems
                      /\ v.metadata.tags = run[p].extractedData.tags
                      /\ v.metadata.chunkCount = NumChunks[run[p].transcript]]_vars

\* C28 witness: the row of a video has been written a second time, with
\* another transcript and other extracted data than the first time.
C28_Witness ==
  \E v \in videos, p \in Procs :
    /\ v.updatedAt > v.createdAt
    /\ run[p].videoId = v.id
    /\ run[p].itemAtStart # NoRecord
    /\ run[p].itemAtStart.fullTranscript # v.fullTranscript
    /\ run[p].itemAtStart.metadata.summary # v.metadata.summary

\* C29: when no run of a video is in progress, the chunk rows stored for
\* the video all record one totalChunks n and their chunkIndex values are
\* exactly 0 .. n - 1.
C29_ContiguousIndices ==
  \A id \in Ids :
    (\A p \in Procs : run[p].videoId = id => ~Running(run[p]))
    => \/ ChunkRows(id) = {}
       \/ \E n \in 1..3 :
            /\ \A c \in ChunkRows(id) : c.totalChunks = n
            /\ {c.chunkIndex : c \in ChunkRows(id)} = 0..(n - 1)

\* C30: the output of every run that is done has chunksCreated equal to the
\* number of its chunkRecords.
C30_CountMatchesRecords ==
  \A p \in Procs :
    run[p].pc = "done"
      => run[p].chunksCreated = Cardinality(run[p].chunkRecords)

\* C31: a run for which createIndex threw because the index exists went on
\* to the upsert of its vectors: it does not fail at the creation of the
\* index, and when it is done it has upserted the vectors of its chunks.
C31_IndexConflictRecovered ==
  \A p \in Procs :
    run[p].indexConflict
      => /\ run[p].pc \in {"upsert-vectors", "done", "failed"}
         /\ run[p].pc = "failed" => run[p].failedAt = "upsert-vectors"
         /\ run[p].pc = "done"
              => /\ "vector" \in run[p].writes
                 /\ \A k \in 0..(NumChunks[run[p].transcript] - 1) :
                      \E x \in vectorStore : x.id = ChunkId(run[p].videoId, k)

\* C31 witness: a run is done after createIndex threw for the index that
\* another run had created.
C31_Witness ==
  \E p \in Procs :
    /\ run[p].indexConflict
    /\ run[p].pc = "done"
    /\ "vector" \in run[p].writes

\* C32: the metadata of every stored video records the chunk size and the
\* overlap its transcript was chunked with, and the number of its chunks.
C32_ParametersRecorded ==
  \A v \in videos :
    /\ {"chunkSize", "overlap", "chunkCount"} \subseteq DOMAIN v.metadata
    /\ v.metadata.chunkSize = ChunkSize
    /\ v.metadata.overlap = Overlap
    /\ v.metadata.chunkCount = NumChunks[v.fullTranscript]

\* Item v satisfies every predicate of filter f: one of the listed tags is
\* an element of its tags, its summary contains the summaryContains text.
SatisfiesAll(v, f) ==
  /\ ("tags" \in f.keys /\ Len(f.tags) > 0)
       => \E k \in 1..Len(f.tags) : f.tags[k] \in Range(v.metadata.tags)
  /\ ("summaryContains" \in f.keys /\ f.summaryContains # "")
       => Like(v.metadata.summary, f.summaryContains)

\* C33: in index.ts and tools/retrieval-tool.ts, a filter with tags and
\* summaryContains predicates resolves, whenever the videos table answers,
\* to exactly the videos that satisfy every predicate present, a list of
\* tags being satisfied by a video that has one of them as an element.
C33_ConjunctiveDisjunctive ==
  (search.impl \in {"index", "tool"} /\ FilterResolves
     /\ search.filter.keys \subseteq {"tags", "summaryContains", "content"}
     /\ search.accesses # <<>>)
  => /\ search.pc = "failed" /\ search.accesses = <<"metadata">>
          => nfaults > 0
     /\ search.pc # "failed"
          => {search.matched[k].id : k \in 1..Len(search.matched)} =
               {v.id : v \in {w \in videos : SatisfiesAll(w, search.filter)}}

\* The characters of a text in lower case.
LowerChars(str) ==
  [k \in 1..Len(CharsOf(str)) |->
     CASE CharsOf(str)[k] = "S" -> "s"
       [] CharsOf(str)[k] = "U" -> "u"
       [] OTHER -> CharsOf(str)[k]]

\* Item v satisfies every predicate of filter f up to letter case: one of
\* the listed tags equals one of its tags, its summary contains the text.
SatisfiesUpToCase(v, f) ==
  /\ ("tags" \in f.keys /\ Len(f.tags) > 0)
       => \E k \in 1..Len(f.tags) :
            ToLowerCase(f.tags[k])
              \in {ToLowerCase(x) : x \in Range(v.metadata.tags)}
  /\ ("summaryContains" \in f.keys /\ f.summaryContains # "")
       => LET t == LowerChars(v.metadata.summary)
              q == LowerChars(f.summaryContains)
          IN \E at \in 0..(Len(t) - Len(q)) :
               SubSeq(t, at + 1, at + Len(q)) = q

\* C34: in index.ts and tools/retrieval-tool.ts, a filter that has been
\* resolved selected exactly the videos that satisfy its predicates up to
\* letter case: a video whose summary contains the text in another case,
\* or that has a tag equal to a listed one in another case, is selected,
\* and a video that has only a tag of which a listed one is a part is not.
C34_CaseInsensitive ==
  (search.impl \in {"index", "tool"} /\ FilterResolves
     /\ search.filter.keys \subseteq {"tags", "summaryContains", "content"}
     /\ search.accesses # <<>> /\ search.pc # "failed")
  => {search.matched[k].id : k \in 1..Len(search.matched)} =
       {v.id : v \in {w \in videos : SatisfiesUpToCase(w, search.filter)}}

\* C35: a run whose CHECK_EXISTING found the Item writes nothing: no step of
\* such a run changes the Metadata Store, the Segment Store or the Vector
\* Index (updated-at, transcript and metadata of the Item stay as they are),
\* and when the run was alone the three stores at its end are those of its
\* start, also when the Item had no Segments and no vectors.
C35_SkipPathWritesNothing ==
  /\ [](\A p \in Procs :
          run[p].exists
            => /\ run[p].writes = {}
               /\ Sequential(p) => StoresAsAtStart(run[p]))
  /\ [][\A p \in Procs :
          (run[p].exists /\ run'[p] # run[p]
             /\ \A q \in Procs \ {p} : run'[q] = run[q])
            => UNCHANGED <<videos, chunks, vectorStore>>]_vars

\* C35 witness: a run that found an Item without Segments and vectors, and
\* has completed.
C35_Witness ==
  \E p \in Procs :
    /\ run[p].exists /\ run[p].pc = "done"
    /\ run[p].itemAtStart # NoRecord
    /\ run[p].chunksAtStart = {} /\ run[p].vectorsAtStart = {}
    /\ NumChunks[run[p].itemAtStart.fullTranscript] > 0

\* C36: when no run of a video is in progress, the chunkCount in the
\* metadata of the stored video equals the number of chunk rows stored for
\* the video.
C36_ChunkCountMatchesRows ==
  \A id \in Ids :
    (\A p \in Procs : run[p].videoId = id => ~Running(run[p]))
    => \A v \in VideoRows(id) :
         v.metadata.chunkCount = Cardinality(ChunkRows(id))

\* The text of chunk content is a contiguous part of transcript t.
IsSliceOf ==
  [content \in {<<t, k>> : t \in Transcripts, k \in 0..2}, t \in Transcripts |->
     /\ content[2] < NumChunks[content[1]]
     /\ LET chunk == ChunksOf[content[1]][content[2] + 1]
            text == TextOf[t]
        IN \E at \in 0..(Len(text) - Len(chunk)) :
             \A j \in 1..Len(chunk) : text[at + j] = chunk[j]]

\* C37: when no run of a video is in progress, every chunk id of the video
\* that has both a chunk row and a vector has the same text in the two, and
\* that text is a part of the transcript of the stored video.
C37_TextsAgree ==
  \A id \in Ids :
    (\A p \in Procs : run[p].videoId = id => ~Running(run[p]))
    => \A c \in ChunkRows(id), x \in VectorRows(id) :
         c.id = x.id
           => /\ c.content = x.metadata.content
              /\ \A v \in VideoRows(id) : IsSliceOf[c.content, v.fullTranscript]

\* C38: in every state, also one left by a run that failed between two of
\* its writes, every chunk row has the video it references stored, and
\* every vector has a chunk row of the same id.
C38_ReferentialIntegrity ==
  /\ \A c \in chunks : \E v \in videos : v.id = c.videoId
  /\ \A x \in vectorStore : \E c \in chunks : c.id = x.id

\* C38 witness: a run failed after it had inserted some of its chunk rows,
\* while vectors of an earlier run are stored.
C38_Witness ==
  \E p \in Procs :
    /\ run[p].pc = "failed" /\ run[p].failedAt = "insert-chunks"
    /\ "segment" \in run[p].writes
    /\ VectorRows(run[p].videoId) # {}

\* C39: once two runs of one video that overlapped in time, obtained
\* different transcripts and both chunked and embedded have both completed,
\* the stored chunk rows, vectors and transcript of the video are all those
\* of one of the two runs.
C39_OneRunWins ==
  (/\ \A p \in Procs : run[p].pc = "done" /\ ~run[p].exists
   /\ \E p \in Procs : ~run[p].alone
   /\ \A p, q \in Procs : run[p].videoId = run[q].videoId
   /\ \E p, q \in Procs : run[p].transcript # run[q].transcript)
  => \E p \in Procs :
       LET id == run[p].videoId
       IN /\ \A v \in VideoRows(id) : v.fullTranscript = run[p].transcript
          /\ \A c \in ChunkRows(id) : c.content[1] = run[p].transcript
          /\ \A x \in VectorRows(id) :
               x.metadata.content[1] = run[p].transcript

\* C40: in every call of chunkText with 0 <= overlap < chunkSize, start is
\* never negative at the head of an iteration and is larger at each
\* iteration than at the one before, and for a text that is not empty no
\* empty chunk is pushed.
C40_StartAdvances ==
  chunker.pc = "returned"
  => /\ \A i \in 1..Len(chunker.starts) : chunker.starts[i] >= 0
     /\ \A i \in 1..(Len(chunker.starts) - 1) :
          chunker.starts[i] < chunker.starts[i + 1]
     /\ chunker.text # <<>>
          => \A k \in 1..Len(chunker.chunks) : chunker.chunks[k] # <<>>

====
